---- MODULE Spec2Model ----
(***************************************************************************)
(* Model of the rooftop rainwater harvesting (RTRWH) assessment service:   *)
(* the computation functions of app/compute.py and the rainfall resolver   *)
(* and assessment handler of app/services.py.                              *)
(*                                                                         *)
(* Numbers.  Python floats are modelled as fixed-point values with two     *)
(* decimals, tagged with their IEEE class:                                 *)
(*     [k |-> "fin", v |-> n]   the finite value n / 100                   *)
(*     [k |-> "inf" | "ninf" | "nan", v |-> 0]   +inf, -inf, NaN           *)
(* Rainfall (mm), potential (liters) and coverage (percent) are in         *)
(* hundredths; areas (m2), dwellers and costs are integers.  round(x, 2)   *)
(* is RoundHalfEven on the exact quotient; the input sets avoid exact      *)
(* decimal ties in calculate_potential, where the binary representation    *)
(* could round either way.                                                 *)
(***************************************************************************)
EXTENDS Integers, Sequences, FiniteSets, TLC

\* bounds of the model
MaxGrid == 10
MaxDwellers == 1

-----------------------------------------------------------------------------
(* Float arithmetic *)

Fin(n) == [k |-> "fin", v |-> n]
PosInf == [k |-> "inf", v |-> 0]
NegInf == [k |-> "ninf", v |-> 0]
NaN == [k |-> "nan", v |-> 0]

\* a quantity given in whole units, as hundredths
Units(n) == n * 100

\* comparisons of a float x with a finite number n (hundredths); every
\* comparison with NaN is false
Lt(x, n) == (x.k = "fin" /\ x.v < n) \/ x.k = "ninf"
Le(x, n) == (x.k = "fin" /\ x.v <= n) \/ x.k = "ninf"
Gt(x, n) == (x.k = "fin" /\ x.v > n) \/ x.k = "inf"
Ge(x, n) == (x.k = "fin" /\ x.v >= n) \/ x.k = "inf"

\* x * a for an integer a
Scale(x, a) ==
    IF x.k = "fin" THEN Fin(x.v * a)
    ELSE IF x.k = "nan" \/ a = 0 THEN NaN
    ELSE IF (x.k = "inf") = (a > 0) THEN PosInf ELSE NegInf

\* x + y
Add(x, y) ==
    IF x.k = "fin" /\ y.k = "fin" THEN Fin(x.v + y.v)
    ELSE IF x.k = "nan" \/ y.k = "nan" THEN NaN
    ELSE IF x.k = "fin" THEN y
    ELSE IF y.k = "fin" THEN x
    ELSE IF x.k = y.k THEN x ELSE NaN

\* n / d rounded to the nearest integer, ties to even (d > 0)
RoundHalfEven(n, d) ==
    LET q == n \div d
        r == n % d
    IN IF 2 * r < d THEN q
       ELSE IF 2 * r > d THEN q + 1
       ELSE IF q % 2 = 0 THEN q ELSE q + 1

\* round(x, 2) of the float x / d: non-finite values are returned unchanged
Round2(x, d) == IF x.k = "fin" THEN Fin(RoundHalfEven(x.v, d)) ELSE x

\* int(x) of a finite float, in whole units: truncation towards zero
Trunc(v) == IF v >= 0 THEN v \div 100 ELSE -((-v) \div 100)

\* math.ceil(x / k) of a finite positive float and a whole number k
Ceil(v, k) == (v + Units(k) - 1) \div Units(k)

-----------------------------------------------------------------------------
(* Structure labels.  A label is a string; Text gives its characters, on     *)
(* which the substring tests of calculate_structure_dimensions work.         *)

Text ==
       "Modular Tank (compact)" :> <<"M","o","d","u","l","a","r"," ","T","a","n","k"," ","(","c","o","m","p","a","c","t",")">>
    @@ "Recharge Pit (small)" :> <<"R","e","c","h","a","r","g","e"," ","P","i","t"," ","(","s","m","a","l","l",")">>
    @@ "Recharge Trench (medium)" :> <<"R","e","c","h","a","r","g","e"," ","T","r","e","n","c","h"," ","(","m","e","d","i","u","m",")">>
    @@ "Recharge Pit (large, reinforced)" :> <<"R","e","c","h","a","r","g","e"," ","P","i","t"," ","(","l","a","r","g","e",","," ","r","e","i","n","f","o","r","c","e","d",")">>
    @@ "Recharge Shaft with Trench" :> <<"R","e","c","h","a","r","g","e"," ","S","h","a","f","t"," ","w","i","t","h"," ","T","r","e","n","c","h">>
    @@ "Deep Bore Recharge Shaft" :> <<"D","e","e","p"," ","B","o","r","e"," ","R","e","c","h","a","r","g","e"," ","S","h","a","f","t">>
    @@ "Recharge Shaft" :> <<"R","e","c","h","a","r","g","e"," ","S","h","a","f","t">>
    @@ "Percolation Tank" :> <<"P","e","r","c","o","l","a","t","i","o","n"," ","T","a","n","k">>

SixLabels ==
    {"Modular Tank (compact)", "Recharge Pit (small)",
     "Recharge Trench (medium)", "Recharge Pit (large, reinforced)",
     "Recharge Shaft with Trench", "Deep Bore Recharge Shaft"}

\* needle in hay, on character sequences
Contains(needle, hay) ==
    \E i \in 1..(Len(hay) - Len(needle) + 1) :
        SubSeq(hay, i, i + Len(needle) - 1) = needle

-----------------------------------------------------------------------------
(* app/compute.py *)

calculate_potential(user_input, rainfall_mm) ==
    LET roof_contribution == Scale(Scale(rainfall_mm, user_input.roof_area), 8)
        open_space_contribution == Scale(Scale(rainfall_mm, user_input.open_space), 3)
        total_runoff == Add(roof_contribution, open_space_contribution)
    IN Round2(total_runoff, 10)

\* recommend_structure with potential = 50000 taken into the first range
recommend_structure_le(user_input, potential) ==
    IF Le(potential, Units(50000))
    THEN IF user_input.open_space < 20
         THEN "Modular Tank (compact)" ELSE "Recharge Pit (small)"
    ELSE IF Le(potential, Units(200000))
    THEN IF user_input.open_space >= 50
         THEN "Recharge Trench (medium)" ELSE "Recharge Pit (large, reinforced)"
    ELSE IF user_input.open_space >= 100
         THEN "Recharge Shaft with Trench" ELSE "Deep Bore Recharge Shaft"

recommend_structure(user_input, potential) ==
    IF Lt(potential, Units(50000))
    THEN IF user_input.open_space < 20
         THEN "Modular Tank (compact)" ELSE "Recharge Pit (small)"
    ELSE IF Ge(potential, Units(50000)) /\ Le(potential, Units(200000))
    THEN IF user_input.open_space >= 50
         THEN "Recharge Trench (medium)" ELSE "Recharge Pit (large, reinforced)"
    ELSE IF user_input.open_space >= 100
         THEN "Recharge Shaft with Trench" ELSE "Deep Bore Recharge Shaft"

base_costs ==
       "Recharge Pit (small)" :> 20000
    @@ "Recharge Pit (large, reinforced)" :> 40000
    @@ "Recharge Trench (medium)" :> 60000
    @@ "Recharge Shaft" :> 100000
    @@ "Deep Bore Recharge Shaft" :> 150000
    @@ "Recharge Shaft with Trench" :> 180000
    @@ "Modular Tank (compact)" :> 25000

\* a call that raised instead of returning
Raised(e) == [raised |-> e, cost |-> 0, benefit |-> ""]

\* extra_cost on the magnitude of the potential
extra_cost_abs(v) ==
    ((IF Trunc(v) < 0 THEN -Trunc(v) ELSE Trunc(v)) \div 50000) * 10000

\* extra_cost with 1000 per step
extra_cost_1000(v) == (Trunc(v) \div 50000) * 1000

\* (int(potential) // 50000) * 10000
extra_cost(v) == (Trunc(v) \div 50000) * 10000

\* benefit_ratio, in hundredths
benefit_ratio(v, total_cost) ==
    IF total_cost > 0 THEN RoundHalfEven(v, total_cost) ELSE 0

benefit_label(ratio) ==
    IF ratio > 500 THEN "High benefit"
    ELSE IF ratio > 200 THEN "Moderate cost-benefit"
    ELSE "Low benefit"

\* int() of an infinity raises OverflowError, of a NaN ValueError
cost_estimation(potential, structure) ==
    LET base_cost == IF structure \in DOMAIN base_costs
                     THEN base_costs[structure] ELSE 30000
        total_cost == base_cost + extra_cost(potential.v)
        ratio == benefit_ratio(potential.v, total_cost)
    IN IF potential.k = "nan" THEN Raised("ValueError")
       ELSE IF potential.k # "fin" THEN Raised("OverflowError")
       ELSE [raised |-> "", cost |-> total_cost,
             benefit |-> benefit_label(ratio)]

\* math.ceil(potential / k) if potential > 0 else 0; math.ceil of an
\* infinity raises OverflowError.  -1 stands for the raise.
needed(potential, k) ==
    IF Gt(potential, 0)
    THEN IF potential.k = "fin" THEN Ceil(potential.v, k) ELSE -1
    ELSE 0

Sized(kind, n) ==
    IF n < 0 THEN [raised |-> "OverflowError", kind |-> "", n |-> 0]
    ELSE [raised |-> "", kind |-> kind, n |-> n]

\* calculate_structure_dimensions with "Shaft" tested before "Trench"
calculate_structure_dimensions_shaft_first(structure, potential) ==
    IF Contains(<<"P", "i", "t">>, Text[structure])
    THEN Sized("pits", needed(potential, 2500))
    ELSE IF Contains(<<"S", "h", "a", "f", "t">>, Text[structure])
    THEN Sized("shafts", needed(potential, 50000))
    ELSE IF Contains(<<"T", "r", "e", "n", "c", "h">>, Text[structure])
    THEN Sized("trench sections", needed(potential, 15000))
    ELSE IF Contains(<<"M", "o", "d", "u", "l", "a", "r">>, Text[structure])
    THEN Sized("m3 modular tank system", needed(potential, 1000))
    ELSE Sized("Standard design as per site conditions", 0)

\* the returned text is modelled by its sizing rule and its number
calculate_structure_dimensions(structure, potential) ==
    IF Contains(<<"P", "i", "t">>, Text[structure])
    THEN Sized("pits", needed(potential, 2500))
    ELSE IF Contains(<<"T", "r", "e", "n", "c", "h">>, Text[structure])
    THEN Sized("trench sections", needed(potential, 15000))
    ELSE IF Contains(<<"S", "h", "a", "f", "t">>, Text[structure])
    THEN Sized("shafts", needed(potential, 50000))
    ELSE IF Contains(<<"M", "o", "d", "u", "l", "a", "r">>, Text[structure])
    THEN Sized("m3 modular tank system", needed(potential, 1000))
    ELSE Sized("Standard design as per site conditions", 0)

-----------------------------------------------------------------------------
(* app/services.py: state *)

VARIABLES
    OPENWEATHER_API_KEY,  \* the credential read from the environment at load
    pc,                   \* "idle", "request" (the lookup is in flight), "done", "failed"
    data,                 \* the request being assessed
    url,                  \* the query get_rainfall built: "lat_lon", "q" or ""
    requests_sent,        \* calls of requests.get during this assessment
    response,             \* what the provider answered, if it was asked
    rainfall,             \* the rainfall the assessment uses
    result,               \* the dict assess_rtrwh returned
    error,                \* the exception assess_rtrwh raised
    last,                 \* the previous assessment of the same site
    call,                 \* a direct call of a function of compute.py
    previous              \* the call of cost_estimation before this one

vars == <<OPENWEATHER_API_KEY, pc, data, url, requests_sent, response,
          rainfall, result, error, last, call, previous>>

service == <<OPENWEATHER_API_KEY, pc, data, url, requests_sent, response,
             rainfall, result, error, last>>

Nothing == [nothing |-> TRUE]

\* Python's None and truthiness of str / float
None == "<None>"
TruthyStr(s) == s # None /\ s # ""
TruthyNum(x) == x # 0

\* a value of the request that is missing (None), or not a number
Absent == [k |-> "none", v |-> 0]
NotNumeric == [k |-> "text", v |-> 0]

-----------------------------------------------------------------------------
(* Inputs *)

Locations == {None, "", "Pune"}
Latitudes == {0, 18}
Longitudes == {0, 73}
GwDepths == {0, 10}

\* <<roof_area, open_space>> in m2
Sites == {<<0, 0>>, <<81, 3>>, <<300, 120>>, <<-10, 20>>}

\* rainfall_mm of the request: missing, text, or a float (hundredths of mm)
RainfallInputs ==
    {Absent, NotNumeric, PosInf, NaN}
    \cup {Fin(r) : r \in {0, 22500, 52500, 74998, 75000, 80001}}

Requests ==
    {[location |-> l, latitude |-> la, longitude |-> lo, dwellers |-> d,
      roof_area |-> s[1], open_space |-> s[2], gw_depth |-> g,
      rainfall_mm |-> r] :
        l \in Locations, la \in Latitudes, lo \in Longitudes,
        d \in -1..MaxDwellers, s \in Sites, g \in GwDepths,
        r \in RainfallInputs}

\* the members "1h" and "3h" of a "rain" object: missing, text, or a number
\* (thousandths of mm)
Amounts ==
    {<<Absent, Absent>>, <<Absent, Fin(100)>>, <<Fin(0), Fin(100)>>,
     <<Fin(250), Absent>>, <<NotNumeric, Absent>>}

\* answers of the provider: requests.get raises (timeout, connection error),
\* or returns a status and a body.  json is "invalid" when response.json()
\* raises; rain is "absent", "scalar" (a "rain" member that is not an
\* object) or "object" with the members h1 ("1h") and h3 ("3h")
Bodies ==
    {[json |-> "invalid", rain |-> "absent", h1 |-> Absent, h3 |-> Absent],
     [json |-> "object", rain |-> "absent", h1 |-> Absent, h3 |-> Absent],
     [json |-> "object", rain |-> "scalar", h1 |-> Absent, h3 |-> Absent]}
    \cup {[json |-> "object", rain |-> "object", h1 |-> a[1], h3 |-> a[2]] :
            a \in Amounts}

NoBody == [json |-> "invalid", rain |-> "absent", h1 |-> Absent, h3 |-> Absent]

Responses ==
    {[raises |-> TRUE, status |-> 0, body |-> NoBody],
     [raises |-> FALSE, status |-> 404, body |-> NoBody]}
    \cup {[raises |-> FALSE, status |-> 200, body |-> b] : b \in Bodies}

\* the requests that may come next: any, or the site of the remembered
\* assessment with some gw_depth
NextRequests ==
    IF last = Nothing THEN Requests
    ELSE {[last.data EXCEPT !.gw_depth = g] : g \in GwDepths}

-----------------------------------------------------------------------------
(* app/models.py *)

\* float() and int() of well-typed numbers keep their value
UserInput(d) ==
    [location |-> d.location, latitude |-> d.latitude,
     longitude |-> d.longitude, dwellers |-> d.dwellers,
     roof_area |-> d.roof_area, open_space |-> d.open_space,
     gw_depth |-> d.gw_depth]

\* to_dict with the depth added to the cost
AssessmentResult_to_dict_depth_cost(feasibility, runoff_capacity, recommended_structure, estimated_cost, benefit, gw_depth) ==
    [feasibility |-> feasibility,
     runoff_capacity |-> runoff_capacity,
     recommended_structure |-> recommended_structure,
     estimated_cost |-> estimated_cost + gw_depth,
     benefit_ratio |-> benefit,
     depth_to_groundwater_m |-> gw_depth]

AssessmentResult_to_dict(feasibility, runoff_capacity, recommended_structure, estimated_cost, benefit, gw_depth) ==
    [feasibility |-> feasibility,
     runoff_capacity |-> runoff_capacity,
     recommended_structure |-> recommended_structure,
     estimated_cost |-> estimated_cost,
     benefit_ratio |-> benefit,
     depth_to_groundwater_m |-> gw_depth]

-----------------------------------------------------------------------------
(* app/services.py: get_rainfall *)

DefaultRainfall == Fin(Units(1000))

\* build_url that asks by name without looking at the credential
build_url_no_key(lat, lon, location) ==
    IF TruthyNum(lat) /\ TruthyNum(lon) /\ TruthyStr(OPENWEATHER_API_KEY)
    THEN "lat_lon"
    ELSE IF TruthyStr(location)
    THEN "q"
    ELSE ""

\* the query get_rainfall builds, "" when it returns the default at once
build_url(lat, lon, location) ==
    IF TruthyNum(lat) /\ TruthyNum(lon) /\ TruthyStr(OPENWEATHER_API_KEY)
    THEN "lat_lon"
    ELSE IF TruthyStr(location) /\ TruthyStr(OPENWEATHER_API_KEY)
    THEN "q"
    ELSE ""

\* data["rain"].get("1h", data["rain"].get("3h", 0))
rain_amount(body) ==
    IF body.h1 # Absent THEN body.h1
    ELSE IF body.h3 # Absent THEN body.h3
    ELSE Fin(0)

\* parse_rainfall without the test for a zero amount
parse_rainfall_keep_zero(resp) ==
    IF resp.raises THEN DefaultRainfall
    ELSE IF resp.status # 200 THEN DefaultRainfall
    ELSE IF resp.body.json = "invalid" THEN DefaultRainfall
    ELSE IF resp.body.rain = "absent" THEN DefaultRainfall
    ELSE IF resp.body.rain = "scalar" THEN DefaultRainfall
    ELSE LET rainfall_mm == rain_amount(resp.body)
         IN IF rainfall_mm = NotNumeric THEN DefaultRainfall
            ELSE Round2(Scale(Scale(rainfall_mm, 24), 365), 10)

\* what get_rainfall returns once requests.get has answered with resp; every
\* exception (requests.get, response.json(), .get of a non-object, arithmetic
\* on a non-number) is caught and gives the default
parse_rainfall(resp) ==
    IF resp.raises THEN DefaultRainfall
    ELSE IF resp.status # 200 THEN DefaultRainfall
    ELSE IF resp.body.json = "invalid" THEN DefaultRainfall
    ELSE IF resp.body.rain = "absent" THEN DefaultRainfall
    ELSE IF resp.body.rain = "scalar" THEN DefaultRainfall
    ELSE LET rainfall_mm == rain_amount(resp.body)
         IN IF rainfall_mm = Fin(0) THEN DefaultRainfall
            ELSE IF rainfall_mm = NotNumeric THEN DefaultRainfall
            ELSE Round2(Scale(Scale(rainfall_mm, 24), 365), 10)

-----------------------------------------------------------------------------
(* app/services.py: assess_rtrwh *)

\* float(rainfall), 1000.0 when the conversion raises
to_float(x) == IF x.k = "text" THEN DefaultRainfall ELSE x

yearly_demand(user_input) == user_input.dwellers * 135 * 365

\* round((potential / yearly_demand) * 100, 2) if yearly_demand > 0 else 0,
\* in hundredths of a percent
coverage_percent(v, demand) ==
    IF demand > 0
    THEN (v \div demand) * 100 + RoundHalfEven((v % demand) * 100, demand)
    ELSE 0

\* demand_status with a strict comparison at 70
demand_status_strict(coverage) ==
    IF coverage >= Units(100) THEN "Fully sufficient"
    ELSE IF coverage > Units(70) THEN "Adequate"
    ELSE IF coverage >= Units(30) THEN "Partial"
    ELSE "Minimal"

demand_status(coverage) ==
    IF coverage >= Units(100) THEN "Fully sufficient"
    ELSE IF coverage >= Units(70) THEN "Adequate"
    ELSE IF coverage >= Units(30) THEN "Partial"
    ELSE "Minimal"

\* feasibility_of that accepts a potential of 0
feasibility_of_ge(potential) == IF Ge(potential, 0) THEN "Feasible" ELSE "Not Feasible"

feasibility_of(potential) == IF Gt(potential, 0) THEN "Feasible" ELSE "Not Feasible"

\* assess_rtrwh from the converted rainfall on: the dict it returns, or
\* [raised |-> e] when a function of compute.py raises
assess_with(user_input, rainfall_used) ==
    LET potential == calculate_potential(user_input, rainfall_used)
        structure == recommend_structure(user_input, potential)
        dimensions == calculate_structure_dimensions(structure, potential)
        est == cost_estimation(potential, structure)
        demand == yearly_demand(user_input)
        coverage == coverage_percent(potential.v, demand)
    IN IF dimensions.raised # "" THEN [raised |-> dimensions.raised]
       ELSE IF est.raised # "" THEN [raised |-> est.raised]
       ELSE AssessmentResult_to_dict(feasibility_of(potential), potential,
                structure, est.cost, est.benefit, user_input.gw_depth)
            @@ [yearly_demand_liters |-> demand,
                coverage_percentage |-> coverage,
                demand_met_status |-> [label |-> demand_status(coverage),
                                       percent |-> coverage],
                structure_dimensions |-> dimensions,
                rainfall_used_mm |-> rainfall_used,
                raised |-> ""]

\* the handler goes on with the rainfall r, and returns or raises
Finish(user_input, r) ==
    LET out == assess_with(user_input, to_float(r))
    IN /\ rainfall' = to_float(r)
       /\ IF out.raised = ""
          THEN pc' = "done" /\ result' = out /\ error' = ""
          ELSE pc' = "failed" /\ result' = Nothing /\ error' = out.raised

\* a request comes in with rainfall_mm, or get_rainfall returns the default
\* without a lookup: the handler runs to its end
AssessDirect(d) ==
    /\ pc = "idle"
    /\ LET user_input == UserInput(d)
           u == build_url(user_input.latitude, user_input.longitude,
                          user_input.location)
       IN /\ d.rainfall_mm # Absent \/ u = ""
          /\ data' = d
          /\ url' = IF d.rainfall_mm = Absent THEN u ELSE ""
          /\ Finish(user_input,
                 IF d.rainfall_mm = Absent THEN DefaultRainfall
                 ELSE d.rainfall_mm)
    /\ UNCHANGED <<OPENWEATHER_API_KEY, requests_sent, response, last, call, previous>>

\* a request comes in without rainfall_mm and get_rainfall calls requests.get
AssessLookup(d) ==
    /\ pc = "idle"
    /\ d.rainfall_mm = Absent
    /\ LET user_input == UserInput(d)
           u == build_url(user_input.latitude, user_input.longitude,
                          user_input.location)
       IN /\ u # ""
          /\ url' = u
    /\ data' = d
    /\ pc' = "request"
    /\ requests_sent' = requests_sent + 1
    /\ UNCHANGED <<OPENWEATHER_API_KEY, response, rainfall, result, error, last,
                   call, previous>>

\* requests.get returns or raises; get_rainfall returns and the handler runs
\* to its end
LookupReturns(resp) ==
    /\ pc = "request"
    /\ response' = resp
    /\ Finish(UserInput(data), parse_rainfall(resp))
    /\ UNCHANGED <<OPENWEATHER_API_KEY, data, url, requests_sent, last, call, previous>>

Idle ==
    /\ pc' = "idle" /\ data' = Nothing /\ url' = "" /\ requests_sent' = 0
    /\ response' = Nothing /\ rainfall' = Nothing /\ result' = Nothing
    /\ error' = ""

\* the response is sent (the dict, or the error the route reports); keep
\* says whether the assessment is remembered for a comparison with the next
\* one of the same site
Respond(keep) ==
    /\ pc \in {"done", "failed"}
    /\ Idle
    /\ last' = IF keep
               THEN [data |-> data, response |-> response, result |-> result,
                     error |-> error]
               ELSE Nothing
    /\ UNCHANGED <<OPENWEATHER_API_KEY, call, previous>>

Init ==
    /\ OPENWEATHER_API_KEY \in {None, "", "k3y"}
    /\ pc = "idle" /\ data = Nothing /\ url = "" /\ requests_sent = 0
    /\ response = Nothing /\ rainfall = Nothing /\ result = Nothing
    /\ error = ""
    /\ last = Nothing
    /\ call = Nothing /\ previous = Nothing

Next ==
    \/ \E d \in NextRequests : AssessDirect(d)
    \/ \E d \in NextRequests : AssessLookup(d)
    \/ \E resp \in Responses : LookupReturns(resp)
    \/ \E keep \in BOOLEAN : Respond(keep)

Spec == Init /\ [][Next]_vars

-----------------------------------------------------------------------------
(* Direct calls of the functions of app/compute.py *)

AllLabels == DOMAIN Text

\* potentials on a grid of 25000 liters and one hundredth next to it
Potentials ==
    {Fin(i * Units(25000) + e) : i \in -MaxGrid..MaxGrid, e \in {-1, 0, 1}}
    \cup {PosInf, NegInf, NaN}

OpenSpaces == {-5, 0, 19, 20, 49, 50, 99, 100, 150}

CallRecommend(p, o) ==
    /\ call = Nothing
    /\ call' = [fn |-> "recommend_structure", potential |-> p, open_space |-> o,
                ret |-> recommend_structure([open_space |-> o], p)]
    /\ previous' = Nothing
    /\ UNCHANGED service

CallDimensions(s, p) ==
    /\ call = Nothing
    /\ call' = [fn |-> "calculate_structure_dimensions", structure |-> s,
                potential |-> p, ret |-> calculate_structure_dimensions(s, p)]
    /\ previous' = Nothing
    /\ UNCHANGED service

\* cost_estimation is called, possibly a second time for the same structure
CallCost(p, s) ==
    /\ \/ call = Nothing
       \/ /\ call # Nothing /\ call.fn = "cost_estimation"
          /\ call.structure = s /\ previous = Nothing
    /\ call' = [fn |-> "cost_estimation", potential |-> p, structure |-> s,
                ret |-> cost_estimation(p, s)]
    /\ previous' = call
    /\ UNCHANGED service

Return ==
    /\ call # Nothing
    /\ call' = Nothing
    /\ previous' = Nothing
    /\ UNCHANGED service

InitCompute ==
    /\ OPENWEATHER_API_KEY = None
    /\ pc = "idle" /\ data = Nothing /\ url = "" /\ requests_sent = 0
    /\ response = Nothing /\ rainfall = Nothing /\ result = Nothing
    /\ error = ""
    /\ last = Nothing
    /\ call = Nothing /\ previous = Nothing

NextCompute ==
    \/ \E p \in Potentials, o \in OpenSpaces : CallRecommend(p, o)
    \/ \E s \in AllLabels, p \in Potentials : CallDimensions(s, p)
    \/ \E p \in Potentials, s \in AllLabels : CallCost(p, s)
    \/ Return

SpecCompute == InitCompute /\ [][NextCompute]_vars

-----------------------------------------------------------------------------
(* Properties *)

IsCall(f) == call # Nothing /\ call.fn = f

\* C1: recommend_structure returns, for every (potential, open_space), one of
\* the six labels, the one of the decision table; potential = 50000 and
\* potential = 200000 are in the middle range.
C1_DecisionTable ==
    IsCall("recommend_structure") =>
        LET p == call.potential
            o == call.open_space
        IN /\ call.ret \in SixLabels
           /\ (p.k = "fin" /\ p.v < Units(50000)) =>
                call.ret = IF o < 20 THEN "Modular Tank (compact)"
                           ELSE "Recharge Pit (small)"
           /\ (p.k = "fin" /\ Units(50000) <= p.v /\ p.v <= Units(200000)) =>
                call.ret = IF o >= 50 THEN "Recharge Trench (medium)"
                           ELSE "Recharge Pit (large, reinforced)"
           /\ ((p.k = "fin" /\ p.v > Units(200000)) \/ p.k = "inf") =>
                call.ret = IF o >= 100 THEN "Recharge Shaft with Trench"
                           ELSE "Deep Bore Recharge Shaft"

\* recommend_structure was called at the boundary 200000 with little open space
C1_Witness ==
    /\ IsCall("recommend_structure")
    /\ call.potential = Fin(Units(200000))
    /\ call.open_space = 49
    /\ call.ret = "Recharge Pit (large, reinforced)"

\* the provider answered 200 with a "rain" object whose amount ("1h", else
\* "3h") is a number other than zero
SuccessWithRain ==
    /\ response # Nothing
    /\ ~response.raises
    /\ response.status = 200
    /\ response.body.json = "object"
    /\ response.body.rain = "object"
    /\ LET b == response.body
       IN \/ b.h1.k = "fin" /\ b.h1.v # 0
          \/ b.h1 = Absent /\ b.h3.k = "fin" /\ b.h3.v # 0

\* C2: when the request has no rainfall_mm, get_rainfall does not raise and
\* gives exactly 1000.0 on every path but a 200 answer with a non-zero amount.
C2_DefaultOnEveryFailure ==
    (pc \in {"done", "failed"} /\ data.rainfall_mm = Absent) =>
        /\ error = ""
        /\ ~SuccessWithRain => rainfall = Fin(100000)

\* the provider answered 200 with "1h": 0 next to a non-zero "3h"
C2_Witness ==
    /\ pc = "done"
    /\ response # Nothing
    /\ ~response.raises
    /\ response.status = 200
    /\ response.body.h1 = Fin(0)
    /\ response.body.h3 = Fin(100)
    /\ rainfall = Fin(100000)

\* C3: the provider is contacted at most once in an assessment, and only
\* without rainfall_mm, with a credential, and with non-zero latitude and
\* longitude (query by coordinates) or else a non-empty place name (query by
\* name); a numeric rainfall_mm is used as given, without a lookup.
C3_AtMostOneLookup ==
    /\ requests_sent <= 1
    /\ response # Nothing => requests_sent = 1
    /\ requests_sent = 1 =>
        /\ data.rainfall_mm = Absent
        /\ OPENWEATHER_API_KEY \notin {None, ""}
        /\ IF data.latitude # 0 /\ data.longitude # 0
           THEN url = "lat_lon"
           ELSE url = "q" /\ data.location \notin {None, ""}
    /\ (pc \in {"done", "failed"} /\ data.rainfall_mm # Absent) =>
        requests_sent = 0
    /\ (pc = "done" /\ data.rainfall_mm.k = "fin") =>
        result.rainfall_used_mm = data.rainfall_mm

\* a lookup by name failed and the assessment ended with that single call
C3_Witness ==
    /\ pc = "done"
    /\ url = "q"
    /\ response # Nothing
    /\ response.raises
    /\ requests_sent = 1

\* C4: assess_rtrwh returns a result for every numeric input.
C4_AlwaysCompletes == pc # "failed"

\* C5: for one structure label, the cost of cost_estimation does not decrease
\* when the potential grows.
C5_CostMonotone ==
    (/\ IsCall("cost_estimation")
     /\ previous # Nothing
     /\ previous.structure = call.structure
     /\ previous.ret.raised = ""
     /\ call.ret.raised = "") =>
        /\ previous.potential.v <= call.potential.v =>
                previous.ret.cost <= call.ret.cost
        /\ previous.potential.v >= call.potential.v =>
                previous.ret.cost >= call.ret.cost

\* two calls for one label, a negative potential and then one above 50000
C5_Witness ==
    /\ IsCall("cost_estimation")
    /\ previous # Nothing
    /\ previous.structure = call.structure
    /\ previous.potential.k = "fin"
    /\ previous.potential.v < Units(-50000)
    /\ call.potential.k = "fin"
    /\ call.potential.v > Units(50000)
    /\ previous.ret.cost < call.ret.cost

\* C6: two assessments that differ only in gw_depth (and got the same answer
\* of the provider) agree on every field but depth_to_groundwater_m, which is
\* the gw_depth of the request.
C6_GwDepthUnused ==
    /\ pc = "done" => result.depth_to_groundwater_m = data.gw_depth
    /\ (/\ pc \in {"done", "failed"}
        /\ last # Nothing
        /\ [last.data EXCEPT !.gw_depth = data.gw_depth] = data
        /\ last.response = response) =>
            /\ last.error = error
            /\ pc = "done" =>
                [last.result EXCEPT !.depth_to_groundwater_m =
                    result.depth_to_groundwater_m] = result

\* the same site was assessed with two different gw_depth
C6_Witness ==
    /\ pc = "done"
    /\ last # Nothing
    /\ last.result # Nothing
    /\ last.response = response
    /\ last.data.gw_depth # data.gw_depth
    /\ result.depth_to_groundwater_m = 10
    /\ last.result.depth_to_groundwater_m = 0

\* C7: a result is "Feasible" exactly when its runoff_capacity is above 0,
\* and "Not Feasible" otherwise.
C7_FeasibleIffPositive ==
    pc = "done" =>
        /\ result.feasibility \in {"Feasible", "Not Feasible"}
        /\ result.feasibility = "Feasible" <=>
                (result.runoff_capacity.k = "fin" /\ result.runoff_capacity.v > 0)

\* zero rainfall on a real roof gives a potential of 0
C7_Witness ==
    /\ pc = "done"
    /\ data.rainfall_mm = Fin(0)
    /\ data.roof_area > 0
    /\ result.runoff_capacity = Fin(0)
    /\ result.feasibility = "Not Feasible"

\* the label for a coverage c, in hundredths of a percent
StatusOf(c) ==
    CASE c >= 10000 -> "Fully sufficient"
      [] c >= 7000 /\ c < 10000 -> "Adequate"
      [] c >= 3000 /\ c < 7000 -> "Partial"
      [] c < 3000 -> "Minimal"

\* C8 as stated: the thresholds 100, 70 and 30 apply to the quotient
\* potential / (dwellers * 135 * 365) * 100 itself.
C8_UnroundedThresholds ==
    pc = "done" =>
        LET demand == data.dwellers * 135 * 365
            v == result.runoff_capacity.v
            label == result.demand_met_status.label
        IN IF demand > 0
           THEN label = (CASE v >= 100 * demand -> "Fully sufficient"
                           [] v >= 70 * demand /\ v < 100 * demand -> "Adequate"
                           [] v >= 30 * demand /\ v < 70 * demand -> "Partial"
                           [] v < 30 * demand -> "Minimal")
           ELSE label = "Minimal"

\* C8, amended: the thresholds apply to coverage_percentage, which is that
\* quotient rounded to two decimals (0 when the yearly demand is not
\* positive); 100, 70 and 30 are inclusive lower bounds.
C8_RoundedThresholds ==
    pc = "done" =>
        LET demand == data.dwellers * 135 * 365
            v == result.runoff_capacity.v
            c == result.coverage_percentage
        IN /\ result.yearly_demand_liters = demand
           /\ result.demand_met_status = [label |-> StatusOf(c), percent |-> c]
           /\ demand <= 0 => c = 0
           /\ demand > 0 =>
                \* c is an integer nearest to v * 100 / demand
                LET d == (c - (v \div demand) * 100) * demand
                         - (v % demand) * 100
                IN 2 * d <= demand /\ -2 * d <= demand

\* a coverage just under 100 that rounds to 100.00
C8_Witness ==
    /\ pc = "done"
    /\ data.dwellers = 1
    /\ result.runoff_capacity.v < 100 * 49275
    /\ result.coverage_percentage = 10000
    /\ result.demand_met_status.label = "Fully sufficient"

\* the divisor of the sizing rule of a label
DivisorOf(kind) ==
    CASE kind = "pits" -> 2500
      [] kind = "trench sections" -> 15000
      [] kind = "shafts" -> 50000
      [] kind = "m3 modular tank system" -> 1000

\* C9: on the six labels of recommend_structure, calculate_structure_dimensions
\* never gives the generic text: Pit labels get pits, the Trench label and
\* "Recharge Shaft with Trench" trench sections, "Deep Bore Recharge Shaft"
\* shafts, the Modular label the tank volume, with the number
\* ceil(potential / k) for a positive potential and 0 otherwise.
C9_SizingRule ==
    (IsCall("calculate_structure_dimensions") /\ call.structure \in SixLabels
     /\ call.ret.raised = "") =>
        LET kind == call.ret.kind
            n == call.ret.n
            p == call.potential
        IN /\ kind = (CASE call.structure \in {"Recharge Pit (small)",
                              "Recharge Pit (large, reinforced)"} -> "pits"
                        [] call.structure \in {"Recharge Trench (medium)",
                              "Recharge Shaft with Trench"} -> "trench sections"
                        [] call.structure = "Deep Bore Recharge Shaft" -> "shafts"
                        [] call.structure = "Modular Tank (compact)" ->
                              "m3 modular tank system")
           /\ IF p.k = "fin" /\ p.v > 0
              THEN /\ n * Units(DivisorOf(kind)) >= p.v
                   /\ (n - 1) * Units(DivisorOf(kind)) < p.v
              ELSE n = 0

\* the label with both words was sized as a trench
C9_Witness ==
    /\ IsCall("calculate_structure_dimensions")
    /\ call.structure = "Recharge Shaft with Trench"
    /\ call.potential = Fin(Units(250000) + 1)
    /\ call.ret.kind = "trench sections"
    /\ call.ret.n = 17

\* C10: cost_estimation never reports "High benefit": the potential is at
\* most 5 times the total cost whenever that cost is positive.
C10_NeverHighBenefit ==
    (IsCall("cost_estimation") /\ call.ret.raised = "") =>
        /\ call.ret.benefit \in {"Moderate cost-benefit", "Low benefit"}
        /\ call.ret.cost > 0 => call.potential.v <= 500 * call.ret.cost

\* a large potential with the cheapest structure is only "Moderate"
C10_Witness ==
    /\ IsCall("cost_estimation")
    /\ call.structure = "Recharge Pit (small)"
    /\ call.potential = Fin(Units(250000))
    /\ call.ret.cost = 70000
    /\ call.ret.benefit = "Moderate cost-benefit"

====
